---- MODULE Spec2Model ----
(***************************************************************************)
(* Zoneout: the Pomodoro engine (models/pomodoro.go), the audio player     *)
(* (audio package) and the UI coordinator (ui package) as state machines.  *)
(* Durations are counted in minutes.                                       *)
(***************************************************************************)
EXTENDS Integers, Sequences, FiniteSets, TLC

\* ------------------------------------------------------------- bounds
\* Largest delta a single engine-level Tick is given.
MaxDelta == 31
\* Backend processes and their reapers that exist at one time.
MaxProcs == 2
\* *.mp3 files a scan of the whitenoise directory finds.
MaxTracks == 1
\* The wall clock advances by ClockStep minutes at a time, and at most
\* MaxElapsed minutes pass between two resets of lastTickTime.
ClockStep == 10
MaxElapsed == 10
\* Sessions the statistics record counts up to, and local dates that pass.
MaxSessions == 21
MaxDays == 2
\* The focus length, in minutes, of the session plan that is not the
\* default one.
OtherFocusDuration == 20
\* Messages in the pool of the MOTD, and hours that pass after a message
\* was selected.
MaxMessages == 3
\* Files a scan of the track directory finds, where the menu is studied.
MaxMenuTracks == 2
MaxMotdAge == 26

\* ------------------------------------------------- program constants
\* Session plan of NewPomodoro (minutes, minutes, count).
FocusDuration == 25
BreakDuration == 5
TotalSessions == 3

ModeIdle  == "Idle"
ModeFocus == "Focus"
ModeBreak == "Break"

VARIABLES
    pomodoro,   \* the Pomodoro struct's fields
    fx,         \* sound effects fired by the last handler, in order
    ret,        \* what the last Tick/NextPhase returned
    lastOp,     \* the last operation: [op |-> name, d |-> delta]
    prev,       \* pomodoro before the last operation
    added,      \* minutes given to Stats.AddSession by the last handler
    ap,         \* the AudioPlayer struct's fields
    live,       \* the backend processes that are running
    reaper,     \* per process, the goroutine PlayMP3 spawned with it
    ui,         \* the ui.Model struct's fields
    elapsed,    \* time.Now() minus ui.Model.lastTickTime
    halt,       \* "run", or how the program ended: "quit", "panic"
    phases,     \* SpecCycle only: the modes entered since Start, in order
    stats,      \* the Stats struct's exported fields, in memory
    statsFile,  \* the contents of .zoneout_stats, or NoFile
    today,      \* time.Now() as a local date, counted in days from 1
    prevStats,  \* stats before the last operation on the store
    badge,      \* what the last GetBadgeDescription returned
    motd,       \* the MOTD struct: currentMessage, and time.Since(loadedAt)
    waited      \* of elapsed, the time the engine was not Running (cur), and
                \* what the last key that restarted the tick clock dropped

engineVars == <<pomodoro, fx, ret, lastOp, prev>>
audioVars == <<ap, live, reaper>>
statsVars == <<stats, statsFile, today, prevStats, badge>>
vars == <<pomodoro, fx, ret, lastOp, prev, added, ap, live, reaper, ui,
          elapsed, halt, phases, stats, statsFile, today, prevStats, badge,
          motd, waited>>

Pids == 1..MaxProcs

\* ------------------------------------------------------------ engine
\* An execution context threads the struct, the effects fired so far and
\* the value returned through a handler: [p, fx, ret].

\* LastTickTime is written by Start and Resume and read nowhere; it is
\* left out.
NewPomodoro ==
    [ CurrentMode       |-> ModeIdle,
      Session           |-> [ FocusDuration |-> FocusDuration,
                              BreakDuration |-> BreakDuration,
                              TotalSessions |-> TotalSessions ],
      CurrentSession    |-> 0,
      RemainingTime     |-> FocusDuration,
      TotalTime         |-> FocusDuration,
      IsRunning         |-> FALSE,
      IsPaused          |-> FALSE,
      CompletedSessions |-> 0 ]

Ctx(p) == [p |-> p, fx |-> <<>>, ret |-> FALSE]

PlayStartSound(r) == [r EXCEPT !.fx = Append(@, "start")]

PlayStopSound(r) == [r EXCEPT !.fx = Append(@, "stop")]

Start(r) ==
    LET r1 == IF r.p.CurrentMode = ModeIdle
              THEN PlayStartSound([r EXCEPT !.p.CurrentMode = ModeFocus,
                                            !.p.CurrentSession = 1,
                                            !.p.RemainingTime = r.p.Session.FocusDuration,
                                            !.p.TotalTime = r.p.Session.FocusDuration])
              ELSE r
        r2 == [r1 EXCEPT !.p.IsRunning = TRUE, !.p.IsPaused = FALSE]
    IN  IF r2.p.CurrentMode # ModeIdle THEN PlayStartSound(r2) ELSE r2

Pause(r) ==
    PlayStopSound([r EXCEPT !.p.IsRunning = FALSE, !.p.IsPaused = TRUE])

Resume(r) ==
    IF r.p.IsPaused
    THEN PlayStartSound([r EXCEPT !.p.IsRunning = TRUE, !.p.IsPaused = FALSE])
    ELSE r

\* Stop that forgets to zero the completed-focus counter.
Stop_KeepsCompleted(r) ==
    [r EXCEPT !.p.IsRunning = FALSE,
              !.p.IsPaused = FALSE,
              !.p.CurrentMode = ModeIdle,
              !.p.CurrentSession = 0,
              !.p.RemainingTime = r.p.Session.FocusDuration,
              !.p.TotalTime = r.p.Session.FocusDuration]

Stop(r) ==
    [r EXCEPT !.p.IsRunning = FALSE,
              !.p.IsPaused = FALSE,
              !.p.CurrentMode = ModeIdle,
              !.p.CurrentSession = 0,
              !.p.RemainingTime = r.p.Session.FocusDuration,
              !.p.TotalTime = r.p.Session.FocusDuration,
              !.p.CompletedSessions = 0]

\* NextPhase that counts a session when its break ends, not its focus.
NextPhase_CountsOnBreakExit(r) ==
    IF r.p.CurrentMode = ModeFocus
    THEN [PlayStopSound([r EXCEPT !.p.CurrentMode = ModeBreak,
                                  !.p.RemainingTime = r.p.Session.BreakDuration,
                                  !.p.TotalTime = r.p.Session.BreakDuration])
            EXCEPT !.ret = FALSE]
    ELSE IF r.p.CurrentMode = ModeBreak
    THEN IF r.p.CurrentSession >= r.p.Session.TotalSessions
         THEN [Stop(r) EXCEPT !.ret = TRUE]
         ELSE [PlayStartSound([r EXCEPT !.p.CompletedSessions = @ + 1,
                                        !.p.CurrentSession = @ + 1,
                                        !.p.CurrentMode = ModeFocus,
                                        !.p.RemainingTime = r.p.Session.FocusDuration,
                                        !.p.TotalTime = r.p.Session.FocusDuration])
                 EXCEPT !.ret = FALSE]
    ELSE [r EXCEPT !.ret = FALSE]

\* NextPhase that ends the cycle one session late.
NextPhase_OneMoreSession(r) ==
    IF r.p.CurrentMode = ModeFocus
    THEN [PlayStopSound([r EXCEPT !.p.CompletedSessions = @ + 1,
                                  !.p.CurrentMode = ModeBreak,
                                  !.p.RemainingTime = r.p.Session.BreakDuration,
                                  !.p.TotalTime = r.p.Session.BreakDuration])
            EXCEPT !.ret = FALSE]
    ELSE IF r.p.CurrentMode = ModeBreak
    THEN IF r.p.CurrentSession > r.p.Session.TotalSessions
         THEN [Stop(r) EXCEPT !.ret = TRUE]
         ELSE [PlayStartSound([r EXCEPT !.p.CurrentSession = @ + 1,
                                        !.p.CurrentMode = ModeFocus,
                                        !.p.RemainingTime = r.p.Session.FocusDuration,
                                        !.p.TotalTime = r.p.Session.FocusDuration])
                 EXCEPT !.ret = FALSE]
    ELSE [r EXCEPT !.ret = FALSE]

\* NextPhase that leaves TotalTime alone when the break starts.
NextPhase_KeepsTotal(r) ==
    IF r.p.CurrentMode = ModeFocus
    THEN [PlayStopSound([r EXCEPT !.p.CompletedSessions = @ + 1,
                                  !.p.CurrentMode = ModeBreak,
                                  !.p.RemainingTime = r.p.Session.BreakDuration])
            EXCEPT !.ret = FALSE]
    ELSE IF r.p.CurrentMode = ModeBreak
    THEN IF r.p.CurrentSession >= r.p.Session.TotalSessions
         THEN [Stop(r) EXCEPT !.ret = TRUE]
         ELSE [PlayStartSound([r EXCEPT !.p.CurrentSession = @ + 1,
                                        !.p.CurrentMode = ModeFocus,
                                        !.p.RemainingTime = r.p.Session.FocusDuration,
                                        !.p.TotalTime = r.p.Session.FocusDuration])
                 EXCEPT !.ret = FALSE]
    ELSE [r EXCEPT !.ret = FALSE]

NextPhase(r) ==
    IF r.p.CurrentMode = ModeFocus
    THEN [PlayStopSound([r EXCEPT !.p.CompletedSessions = @ + 1,
                                  !.p.CurrentMode = ModeBreak,
                                  !.p.RemainingTime = r.p.Session.BreakDuration,
                                  !.p.TotalTime = r.p.Session.BreakDuration])
            EXCEPT !.ret = FALSE]
    ELSE IF r.p.CurrentMode = ModeBreak
    THEN IF r.p.CurrentSession >= r.p.Session.TotalSessions
         THEN [Stop(r) EXCEPT !.ret = TRUE]
         ELSE [PlayStartSound([r EXCEPT !.p.CurrentSession = @ + 1,
                                        !.p.CurrentMode = ModeFocus,
                                        !.p.RemainingTime = r.p.Session.FocusDuration,
                                        !.p.TotalTime = r.p.Session.FocusDuration])
                 EXCEPT !.ret = FALSE]
    ELSE [r EXCEPT !.ret = FALSE]

\* Tick that tests expiry before it subtracts the delta.
Tick_TestsBeforeSubtract(r, delta) ==
    IF ~r.p.IsRunning
    THEN [r EXCEPT !.ret = FALSE]
    ELSE IF r.p.RemainingTime - 1 <= 0
         THEN NextPhase([r EXCEPT !.p.RemainingTime = @ - delta])
         ELSE [r EXCEPT !.p.RemainingTime = @ - delta, !.ret = FALSE]

\* Tick that lets the timer of a paused engine run on.
Tick_RunsWhilePaused(r, delta) ==
    IF ~r.p.IsRunning /\ ~r.p.IsPaused
    THEN [r EXCEPT !.ret = FALSE]
    ELSE LET r1 == [r EXCEPT !.p.RemainingTime = @ - delta]
         IN  IF r1.p.RemainingTime <= 0
             THEN NextPhase(r1)
             ELSE [r1 EXCEPT !.ret = FALSE]

Tick(r, delta) ==
    IF ~r.p.IsRunning
    THEN [r EXCEPT !.ret = FALSE]
    ELSE LET r1 == [r EXCEPT !.p.RemainingTime = @ - delta]
         IN  IF r1.p.RemainingTime <= 0
             THEN NextPhase(r1)
             ELSE [r1 EXCEPT !.ret = FALSE]

\* A session reset that always restores a focus-length timer.
ResetSession_ToFocus(r) ==
    PlayStartSound([r EXCEPT !.p.RemainingTime = r.p.Session.FocusDuration])

\* 'r' in handleKeyPress: the session reset, as far as the engine goes.
ResetSession(r) ==
    PlayStartSound([r EXCEPT !.p.RemainingTime = r.p.TotalTime])

\* ------------------------------------------------------ audio player
\* Tracks are numbered from 1 in the order of the list; 0 is the empty
\* path. Processes are numbered 1..MaxProcs; 0 is the nil *exec.Cmd.
\* Handlers work on a context [p, fx, ret, added, ap, live, reaper,
\* overflow]; overflow says the handler needed more than MaxProcs slots.

NoReaper == [st |-> "none", on |-> 0]

\* The path of the temporary file the embedded track is written to.
EmbeddedTrack == MaxMenuTracks + 1

\* The struct as the constructors allocate it.
EmptyAudioPlayer ==
    [ availableMP3s    |-> <<>>,
      currentMP3       |-> 0,
      isPlaying        |-> FALSE,
      isPaused         |-> FALSE,
      currentCmd       |-> 0,
      embeddedTempFile |-> 0 ]

\* ok: whether the asset is read and the temporary file written.
loadEmbeddedWhitenoise(a, ok) ==
    IF ok
    THEN [a EXCEPT !.availableMP3s = Append(@, EmbeddedTrack),
                   !.embeddedTempFile = EmbeddedTrack]
    ELSE a

\* The directory is read and holds the *.mp3 files 1..n, in entry order.
ScanWhitenoiseDirectory(a, n) ==
    [a EXCEPT !.availableMP3s = [i \in 1..n |-> i]]

NewAudioPlayer(n) == ScanWhitenoiseDirectory(EmptyAudioPlayer, n)

\* main creates the directory first, so the scan succeeds; a failed
\* extraction only prints a warning.
NewAudioPlayerWithEmbed(n, ok) ==
    ScanWhitenoiseDirectory(loadEmbeddedWhitenoise(EmptyAudioPlayer, ok), n)

\* The slots no process, handle or goroutine still uses.
FreePids(w) ==
    { q \in Pids :
        /\ q \notin w.live
        /\ q # w.ap.currentCmd
        /\ w.reaper[q].st = "none"
        /\ \A x \in Pids : ~(w.reaper[x].st = "waiting" /\ w.reaper[x].on = q) }

\* A kill that drops the handle and leaves the process running.
KillCurrent_LeavesProcess(w) ==
    IF w.ap.currentCmd # 0
    THEN [w EXCEPT !.ap.currentCmd = 0]
    ELSE w

\* ap.currentCmd.Process.Kill(); ap.currentCmd = nil
KillCurrent(w) ==
    IF w.ap.currentCmd # 0
    THEN [w EXCEPT !.live = @ \ {w.ap.currentCmd}, !.ap.currentCmd = 0]
    ELSE w

\* ok: whether a backend (the primary or the fallback) starts.
PlayMP3(w, filePath, ok) ==
    LET w1 == KillCurrent(w)
    IN  IF ~ok
        THEN w1
        ELSE IF FreePids(w1) = {}
        THEN [w1 EXCEPT !.overflow = TRUE]
        ELSE LET cmd == CHOOSE q \in FreePids(w1) :
                            \A x \in FreePids(w1) : q <= x
             IN  [w1 EXCEPT !.ap.currentCmd = cmd,
                            !.ap.currentMP3 = filePath,
                            !.ap.isPlaying = TRUE,
                            !.live = @ \cup {cmd},
                            !.reaper[cmd] = [st |-> "spawned", on |-> 0]]

\* The interrupt makes the backend exit later: see ProcExit.
AudioPause(w) ==
    IF w.ap.currentCmd # 0
    THEN [w EXCEPT !.ap.isPaused = TRUE, !.ap.isPlaying = FALSE]
    ELSE w

AudioResume(w, ok) ==
    IF w.ap.isPaused /\ w.ap.currentMP3 # 0
    THEN PlayMP3(w, w.ap.currentMP3, ok)
    ELSE w

\* Stop that forgets the selected track.
AudioStop_ForgetsTrack(w) ==
    LET w1 == KillCurrent(w)
    IN  [w1 EXCEPT !.ap.isPlaying = FALSE, !.ap.isPaused = FALSE,
                   !.ap.currentMP3 = 0]

AudioStop(w) ==
    LET w1 == KillCurrent(w)
    IN  [w1 EXCEPT !.ap.isPlaying = FALSE, !.ap.isPaused = FALSE]

\* ------------------------------------------------------- statistics
\* Dates are counted in days from 1; 0 is the empty LastSessionDate. The
\* date format "2006-01-02" gives different strings for different days.
\* A store context is [s, file, ret]: the struct, the file, the result.
\* The file is <<>> while it does not exist and <<record>> once written.

NoFile == <<>>

\* Load when .zoneout_stats cannot be read.
ZeroStats ==
    [ TotalSessions     |-> 0,
      TodaySessions     |-> 0,
      LastSessionDate   |-> 0,
      TotalFocusMinutes |-> 0 ]

\* The file holds the four exported fields as MarshalIndent wrote them;
\* Unmarshal gives them back.
Load(c, day) ==
    IF c.file = NoFile
    THEN [c EXCEPT !.s = ZeroStats]
    ELSE IF c.file[1].LastSessionDate # day
    THEN [c EXCEPT !.s = [c.file[1] EXCEPT !.TodaySessions = 0,
                                           !.LastSessionDate = day]]
    ELSE [c EXCEPT !.s = c.file[1]]

\* NewStats: the struct after its first Load.
NewStats(file, day) == Load([s |-> ZeroStats, file |-> file, ret |-> 0], day).s

\* AddSession that counts on from yesterday's TodaySessions.
Stats_AddSession_NoRollover(c, focusMinutes, day, wr) ==
    LET s2 == [c.s EXCEPT !.TotalSessions = @ + 1,
                          !.TodaySessions = @ + 1,
                          !.TotalFocusMinutes = @ + focusMinutes,
                          !.LastSessionDate = day]
    IN  [c EXCEPT !.s = s2, !.file = IF wr THEN <<s2>> ELSE @]

\* Stats.AddSession. wr: whether os.WriteFile succeeds; a failed write is
\* taken to leave the file as it was.
Stats_AddSession(c, focusMinutes, day, wr) ==
    LET s1 == IF c.s.LastSessionDate # day
              THEN [c.s EXCEPT !.TodaySessions = 0]
              ELSE c.s
        s2 == [s1 EXCEPT !.TotalSessions = @ + 1,
                         !.TodaySessions = @ + 1,
                         !.TotalFocusMinutes = @ + focusMinutes,
                         !.LastSessionDate = day]
    IN  [c EXCEPT !.s = s2, !.file = IF wr THEN <<s2>> ELSE @]

GetTodaySessions(c, day) ==
    LET c1 == Load(c, day)
    IN  IF c1.s.LastSessionDate # day
        THEN [c1 EXCEPT !.s.TodaySessions = 0,
                        !.s.LastSessionDate = day,
                        !.ret = 0]
        ELSE [c1 EXCEPT !.ret = c1.s.TodaySessions]

\* GetBadge returns an emoji; it is named here by the comment beside it.
GetBadge(c, day) ==
    LET c1 == GetTodaySessions(c, day)
        sessions == c1.ret
    IN  [c1 EXCEPT !.ret =
            IF sessions >= 20 THEN "emoji Legend"
            ELSE IF sessions >= 15 THEN "emoji Super Star"
            ELSE IF sessions >= 10 THEN "emoji Royalty"
            ELSE IF sessions >= 8 THEN "emoji Rocketing"
            ELSE IF sessions >= 5 THEN "emoji Strong Work"
            ELSE IF sessions >= 3 THEN "emoji Rising Star"
            ELSE IF sessions >= 1 THEN "emoji On Fire!"
            ELSE "emoji Just Started"]

\* GetBadgeDescription whose Royalty tier starts one session late.
GetBadgeDescription_LateRoyalty(c, day) ==
    LET c1 == GetTodaySessions(c, day)
        sessions == c1.ret
    IN  [c1 EXCEPT !.ret =
            IF sessions >= 20 THEN "Legend"
            ELSE IF sessions >= 15 THEN "Super Star"
            ELSE IF sessions > 10 THEN "Royalty"
            ELSE IF sessions >= 8 THEN "Rocketing"
            ELSE IF sessions >= 5 THEN "Strong Work"
            ELSE IF sessions >= 3 THEN "Rising Star"
            ELSE IF sessions >= 1 THEN "On Fire!"
            ELSE "Just Starting"]

GetBadgeDescription(c, day) ==
    LET c1 == GetTodaySessions(c, day)
        sessions == c1.ret
    IN  [c1 EXCEPT !.ret =
            IF sessions >= 20 THEN "Legend"
            ELSE IF sessions >= 15 THEN "Super Star"
            ELSE IF sessions >= 10 THEN "Royalty"
            ELSE IF sessions >= 8 THEN "Rocketing"
            ELSE IF sessions >= 5 THEN "Strong Work"
            ELSE IF sessions >= 3 THEN "Rising Star"
            ELSE IF sessions >= 1 THEN "On Fire!"
            ELSE "Just Starting"]

\* --------------------------------------------------------------- MOTD
\* The messages of the pool are numbered from 1. sinceLoaded is
\* time.Since(loadedAt), counted in hours.

\* 24*time.Hour
RefreshHours == 24

\* selectRandomMessage drew the message i.
NewMOTD(i) == [currentMessage |-> i, sinceLoaded |-> 0]

NeedsRefresh(m) == m.sinceLoaded > RefreshHours

\* Refresh; i is what rand.Intn draws.
Refresh(m, i) == [m EXCEPT !.currentMessage = i, !.sinceLoaded = 0]

\* ---------------------------------------------------------- coordinator

updateAudioMode(w, ok) ==
    IF w.p.CurrentMode = ModeFocus
    THEN IF ~w.ap.isPlaying /\ w.p.IsRunning
         THEN IF Len(ui.availableMP3s) > 0
              THEN IF w.ap.currentMP3 = 0
                   THEN PlayMP3(w, ui.availableMP3s[1], ok)
                   ELSE PlayMP3(w, w.ap.currentMP3, ok)
              ELSE w
         ELSE w
    ELSE IF w.ap.isPlaying THEN AudioPause(w) ELSE w

\* Stats.AddSession, as the call the coordinator makes.
AddSession(w, focusMinutes) == [w EXCEPT !.added = Append(@, focusMinutes)]

World ==
    [ p |-> pomodoro, fx |-> <<>>, ret |-> FALSE, added |-> <<>>,
      ap |-> ap, live |-> live, reaper |-> reaper, overflow |-> FALSE ]

Commit(w, op, d) ==
    /\ ~w.overflow
    /\ pomodoro' = w.p
    /\ fx' = w.fx
    /\ ret' = w.ret
    /\ added' = w.added
    /\ ap' = w.ap
    /\ live' = w.live
    /\ reaper' = w.reaper
    /\ lastOp' = [op |-> op, d |-> d]
    /\ prev' = pomodoro
    /\ phases' = phases
    /\ UNCHANGED <<statsVars, motd>>

\* A tick handler that leaves the audio player alone when the cycle ends.
TickHandler_NoStop(w, delta, ok) ==
    LET previousMode == w.p.CurrentMode
        w1 == Tick(w, delta)
        w3 == IF previousMode = ModeFocus /\ w1.p.CurrentMode = ModeBreak
              THEN AddSession(w1, 25)
              ELSE w1
    IN  updateAudioMode(w3, ok)

\* Update, case TickMsg. The MOTD refresh it starts with is left out.
TickHandler(w, delta, ok) ==
    LET previousMode == w.p.CurrentMode
        w1 == Tick(w, delta)
        w2 == IF w1.ret THEN AudioStop(w1) ELSE w1
        w3 == IF previousMode = ModeFocus /\ w2.p.CurrentMode = ModeBreak
              THEN AddSession(w2, 25)
              ELSE w2
    IN  updateAudioMode(w3, ok)

TickMsg ==
    /\ halt = "run"
    /\ IF pomodoro.IsRunning
       THEN /\ \E ok \in BOOLEAN :
                   Commit(TickHandler(World, elapsed, ok), "tick", elapsed)
            /\ elapsed' = 0
            /\ waited' = [waited EXCEPT !.cur = 0]
       ELSE /\ Commit(World, "tick", 0)
            /\ elapsed' = elapsed
            /\ waited' = waited
    /\ UNCHANGED <<ui, halt>>

\* time.Now() moves on.
ClockAdvance ==
    /\ halt = "run"
    /\ elapsed + ClockStep <= MaxElapsed
    /\ elapsed' = elapsed + ClockStep
    /\ UNCHANGED <<pomodoro, fx, ret, lastOp, prev, added, ap, live, reaper,
                   ui, halt, phases>>
    /\ UNCHANGED <<statsVars, motd, waited>>

\* No time waited in the interval the tick clock measures.
NoWait == [cur |-> 0, dropped |-> 0]

\* m.lastTickTime = time.Now() in a key handler.
ClockRestarted == [cur |-> 0, dropped |-> waited.cur]

\* Space that does not restart the tick clock when it resumes.
SpaceRestartsClock_NotOnResume(p) ==
    \/ p.CurrentMode = ModeIdle
    \/ p.IsRunning /\ ~p.IsPaused

\* The branches of case " " that assign lastTickTime.
SpaceRestartsClock(p) ==
    \/ p.CurrentMode = ModeIdle
    \/ p.IsRunning
    \/ p.IsPaused

\* handleKeyPress, case " "
SpaceHandler(w, ok) ==
    IF w.p.CurrentMode = ModeIdle
    THEN Start(w)
    ELSE IF w.p.IsRunning /\ ~w.p.IsPaused
    THEN AudioPause(Pause(w))
    ELSE IF w.p.IsPaused
    THEN AudioResume(Resume(w), ok)
    ELSE w

KeySpace ==
    /\ halt = "run"
    /\ \E ok \in BOOLEAN : Commit(SpaceHandler(World, ok), "space", 0)
    /\ elapsed' = IF SpaceRestartsClock(pomodoro) THEN 0 ELSE elapsed
    /\ waited' = IF SpaceRestartsClock(pomodoro)
                 THEN ClockRestarted
                 ELSE waited
    /\ UNCHANGED <<ui, halt>>

\* handleKeyPress, case "R"
KeyResetCycle ==
    /\ halt = "run"
    /\ Commit(AudioStop(Stop(World)), "R", 0)
    /\ ui' = [ui EXCEPT !.showAudioMenu = FALSE]
    /\ UNCHANGED <<elapsed, waited, halt>>

\* handleKeyPress, case "r"
KeyResetSession ==
    /\ halt = "run"
    /\ Commit(ResetSession(World), "r", 0)
    /\ elapsed' = 0
    /\ waited' = ClockRestarted
    /\ UNCHANGED <<ui, halt>>

\* A skip that also sets the engine running.
SkipHandler_SetsRunning(w, ok) ==
    IF w.p.IsRunning \/ w.p.IsPaused
    THEN updateAudioMode([NextPhase(w) EXCEPT !.p.IsRunning = TRUE,
                                              !.p.IsPaused = FALSE], ok)
    ELSE w

\* A skip that records the focus session it ends.
SkipHandler_AddsSession(w, ok) ==
    IF w.p.IsRunning \/ w.p.IsPaused
    THEN LET w1 == NextPhase(w)
             w2 == IF w.p.CurrentMode = ModeFocus
                   THEN AddSession(w1, 25)
                   ELSE w1
         IN  updateAudioMode(w2, ok)
    ELSE w

\* handleKeyPress, case ">"
SkipHandler(w, ok) ==
    IF w.p.IsRunning \/ w.p.IsPaused
    THEN updateAudioMode(NextPhase(w), ok)
    ELSE w

KeySkip ==
    /\ halt = "run"
    /\ \E ok \in BOOLEAN : Commit(SkipHandler(World, ok), ">", 0)
    /\ UNCHANGED <<ui, elapsed, waited, halt>>

\* handleKeyPress, case "a"
KeyAudioMenu ==
    /\ halt = "run"
    /\ Commit(World, "a", 0)
    /\ ui' = IF Len(ui.availableMP3s) > 0
             THEN [ui EXCEPT !.showAudioMenu = ~@]
             ELSE ui
    /\ UNCHANGED <<elapsed, waited, halt>>

\* handleKeyPress, case "up"
KeyUp ==
    /\ halt = "run"
    /\ Commit(World, "up", 0)
    /\ ui' = IF ui.showAudioMenu /\ ui.selectedMP3 > 0
             THEN [ui EXCEPT !.selectedMP3 = @ - 1]
             ELSE ui
    /\ UNCHANGED <<elapsed, waited, halt>>

\* handleKeyPress, case "down"
KeyDown ==
    /\ halt = "run"
    /\ Commit(World, "down", 0)
    /\ ui' = IF ui.showAudioMenu /\ ui.selectedMP3 < Len(ui.availableMP3s) - 1
             THEN [ui EXCEPT !.selectedMP3 = @ + 1]
             ELSE ui
    /\ UNCHANGED <<elapsed, waited, halt>>

\* handleKeyPress, case "enter". selectedMP3 counts from 0; an index past
\* the end of the slice is a run-time panic.
KeyEnter ==
    /\ halt = "run"
    /\ IF ui.showAudioMenu /\ Len(ui.availableMP3s) > 0
       THEN IF ui.selectedMP3 + 1 \in 1..Len(ui.availableMP3s)
            THEN /\ \E ok \in BOOLEAN :
                        Commit(PlayMP3(World,
                                       ui.availableMP3s[ui.selectedMP3 + 1],
                                       ok), "enter", 0)
                 /\ ui' = [ui EXCEPT !.showAudioMenu = FALSE]
                 /\ halt' = halt
            ELSE /\ Commit(World, "enter", 0)
                 /\ ui' = ui
                 /\ halt' = "panic"
       ELSE /\ Commit(World, "enter", 0)
            /\ UNCHANGED <<ui, halt>>
    /\ UNCHANGED <<elapsed, waited>>

\* handleKeyPress, case "esc"
KeyEsc ==
    /\ halt = "run"
    /\ Commit(World, "esc", 0)
    /\ ui' = IF ui.showAudioMenu
             THEN [ui EXCEPT !.showAudioMenu = FALSE]
             ELSE IF ui.showHelp
             THEN [ui EXCEPT !.showHelp = FALSE]
             ELSE ui
    /\ UNCHANGED <<elapsed, waited, halt>>

\* handleKeyPress, case "h", "?"
KeyHelp ==
    /\ halt = "run"
    /\ Commit(World, "h", 0)
    /\ ui' = [ui EXCEPT !.showHelp = ~@, !.showAudioMenu = FALSE]
    /\ UNCHANGED <<elapsed, waited, halt>>

\* handleKeyPress, cases "+", "=", "-", "_": the restart of the track; the
\* volume itself is not part of the state here.
VolumeHandler(w, ok) ==
    IF w.ap.isPlaying /\ w.ap.currentMP3 # 0
    THEN PlayMP3(w, w.ap.currentMP3, ok)
    ELSE w

KeyVolume ==
    /\ halt = "run"
    /\ \E ok \in BOOLEAN : Commit(VolumeHandler(World, ok), "volume", 0)
    /\ UNCHANGED <<ui, elapsed, waited, halt>>

\* handleKeyPress, case "q", "ctrl+c"
KeyQuit ==
    /\ halt = "run"
    /\ Commit(AudioStop(World), "q", 0)
    /\ halt' = "quit"
    /\ UNCHANGED <<ui, elapsed, waited>>

\* Update, case RescanMP3sMsg: the directory holds n files now. Nothing in
\* the program sends this message, so it is no disjunct of Next.
RescanMP3s ==
    /\ halt = "run"
    /\ \E n \in 0..MaxMenuTracks :
          /\ Commit([World EXCEPT !.ap = ScanWhitenoiseDirectory(@, n)],
                    "rescan", 0)
          /\ ui' = [ui EXCEPT !.availableMP3s = [i \in 1..n |-> i]]
    /\ UNCHANGED <<elapsed, waited, halt>>

\* ------------------------------------------- processes and goroutines
\* A backend process ends: the file is over, or a signal arrived.
ProcExit ==
    /\ halt = "run"
    /\ \E q \in live : live' = live \ {q}
    /\ UNCHANGED <<pomodoro, fx, ret, lastOp, prev, added, ap, reaper, ui,
                   elapsed, halt, phases>>
    /\ UNCHANGED <<statsVars, motd, waited>>

\* The goroutine evaluates ap.currentCmd, without the lock, and calls
\* Wait on it: a nil handle is a nil dereference.
ReaperWait ==
    /\ halt = "run"
    /\ \E q \in Pids :
          /\ reaper[q].st = "spawned"
          /\ IF ap.currentCmd = 0
             THEN /\ reaper' = [reaper EXCEPT ![q] = [st |-> "panic", on |-> 0]]
                  /\ halt' = "panic"
             ELSE /\ reaper' = [reaper EXCEPT ![q] =
                                   [st |-> "waiting", on |-> ap.currentCmd]]
                  /\ halt' = halt
    /\ UNCHANGED <<pomodoro, fx, ret, lastOp, prev, added, ap, live, ui,
                   elapsed, phases>>
    /\ UNCHANGED <<statsVars, motd, waited>>

\* Wait returns once the process has ended; the goroutine takes the lock
\* and clears isPlaying.
ReaperWake ==
    /\ halt = "run"
    /\ \E q \in Pids :
          /\ reaper[q].st = "waiting"
          /\ reaper[q].on \notin live
          /\ reaper' = [reaper EXCEPT ![q] = NoReaper]
          /\ ap' = IF ap.currentCmd # 0 /\ ap.isPlaying
                   THEN [ap EXCEPT !.isPlaying = FALSE]
                   ELSE ap
    /\ UNCHANGED <<pomodoro, fx, ret, lastOp, prev, added, live, ui,
                   elapsed, halt, phases>>
    /\ UNCHANGED <<statsVars, motd, waited>>

\* NewModel over NewPomodoro and the audio player main builds; the scan
\* found n files. The embedded asset is taken to be extracted.
Init ==
    /\ pomodoro = NewPomodoro
    /\ fx = <<>>
    /\ ret = FALSE
    /\ lastOp = [op |-> "New", d |-> 0]
    /\ prev = NewPomodoro
    /\ added = <<>>
    /\ \E n \in 0..MaxTracks :
          /\ ap = NewAudioPlayerWithEmbed(n, TRUE)
          /\ ui = [ selectedMP3   |-> 0,
                    availableMP3s |-> [i \in 1..n |-> i],
                    showAudioMenu |-> FALSE,
                    showHelp      |-> FALSE ]
    /\ live = {}
    /\ reaper = [q \in Pids |-> NoReaper]
    /\ elapsed = 0
    /\ halt = "run"
    /\ phases = <<>>
    /\ stats = NewStats(NoFile, 1)
    /\ statsFile = NoFile
    /\ today = 1
    /\ prevStats = NewStats(NoFile, 1)
    /\ badge = ""
    /\ motd = NewMOTD(1)
    /\ waited = NoWait

Next ==
    \/ TickMsg
    \/ ClockAdvance
    \/ KeySpace
    \/ KeyResetCycle
    \/ KeyResetSession
    \/ KeySkip
    \/ KeyAudioMenu
    \/ KeyUp
    \/ KeyDown
    \/ KeyEnter
    \/ KeyEsc
    \/ KeyHelp
    \/ KeyVolume
    \/ KeyQuit
    \/ ProcExit
    \/ ReaperWait
    \/ ReaperWake

Spec == Init /\ [][Next]_vars

\* ------------------------------------------- the engine driven directly
\* Every exported operation may be called in every state.

Apply(r, op, d) ==
    /\ pomodoro' = r.p
    /\ fx' = r.fx
    /\ ret' = r.ret
    /\ lastOp' = [op |-> op, d |-> d]
    /\ prev' = pomodoro
    /\ UNCHANGED <<added, ap, live, reaper, ui, elapsed, halt>>
    /\ UNCHANGED <<statsVars, motd, waited>>

Unlogged(A) == A /\ UNCHANGED phases

EngineStart == Unlogged(Apply(Start(Ctx(pomodoro)), "Start", 0))

EnginePause == Unlogged(Apply(Pause(Ctx(pomodoro)), "Pause", 0))

EngineResume == Unlogged(Apply(Resume(Ctx(pomodoro)), "Resume", 0))

EngineStop == Unlogged(Apply(Stop(Ctx(pomodoro)), "Stop", 0))

EngineNextPhase == Unlogged(Apply(NextPhase(Ctx(pomodoro)), "NextPhase", 0))

\* In Idle the timer of a running engine only falls; the guard stops it at
\* -MaxDelta.
EngineTick ==
    \E d \in 0..MaxDelta :
        /\ pomodoro.RemainingTime - d >= -MaxDelta
        /\ Unlogged(Apply(Tick(Ctx(pomodoro), d), "Tick", d))

EngineResetSession == Unlogged(Apply(ResetSession(Ctx(pomodoro)), "ResetSession", 0))

InitEngine ==
    /\ pomodoro = NewPomodoro
    /\ fx = <<>>
    /\ ret = FALSE
    /\ lastOp = [op |-> "New", d |-> 0]
    /\ prev = NewPomodoro
    /\ added = <<>>
    /\ ap = NewAudioPlayer(0)
    /\ ui = [ selectedMP3   |-> 0,
              availableMP3s |-> <<>>,
              showAudioMenu |-> FALSE,
              showHelp      |-> FALSE ]
    /\ live = {}
    /\ reaper = [q \in Pids |-> NoReaper]
    /\ elapsed = 0
    /\ halt = "run"
    /\ phases = <<>>
    /\ stats = NewStats(NoFile, 1)
    /\ statsFile = NoFile
    /\ today = 1
    /\ prevStats = NewStats(NoFile, 1)
    /\ badge = ""
    /\ motd = NewMOTD(1)
    /\ waited = NoWait

NextEngine ==
    \/ EngineStart
    \/ EnginePause
    \/ EngineResume
    \/ EngineStop
    \/ EngineNextPhase
    \/ EngineTick
    \/ EngineResetSession

SpecEngine == InitEngine /\ [][NextEngine]_vars

\* ------------------------------------------------- one cycle, ticks only
\* Start on the fresh engine, then nothing but Ticks with a delta > 0.
\* phases logs every change of mode.

Logged(A) ==
    /\ A
    /\ phases' = IF pomodoro'.CurrentMode # pomodoro.CurrentMode
                 THEN Append(phases, pomodoro'.CurrentMode)
                 ELSE phases

CycleStart ==
    /\ lastOp.op = "New"
    /\ Logged(Apply(Start(Ctx(pomodoro)), "Start", 0))

CycleTick ==
    /\ lastOp.op # "New"
    /\ \E d \in 1..MaxDelta :
          Logged(Apply(Tick(Ctx(pomodoro), d), "Tick", d))

NextCycle == CycleStart \/ CycleTick

SpecCycle ==
    /\ InitEngine
    /\ [][NextCycle]_vars
    /\ WF_vars(CycleStart)
    /\ WF_vars(CycleTick)

\* ------------------------------------------- the statistics store alone
\* The store's methods called in any order while the days pass.

\* The minutes a caller passes to AddSession.
FocusMinutes == {FocusDuration, 2 * FocusDuration}

StoreCtx == [s |-> stats, file |-> statsFile, ret |-> 0]

StoreApply(c, op, d) ==
    /\ stats' = c.s
    /\ statsFile' = c.file
    /\ prevStats' = stats
    /\ lastOp' = [op |-> op, d |-> d]
    /\ UNCHANGED <<pomodoro, fx, ret, prev, added, ap, live, reaper, ui,
                   elapsed, halt, phases, today, motd, waited>>

\* The write is let fail only while the file does not exist yet.
StoreAddSession ==
    /\ stats.TotalSessions < MaxSessions
    /\ \E m \in FocusMinutes :
          \E wr \in IF statsFile = NoFile THEN BOOLEAN ELSE {TRUE} :
              StoreApply(Stats_AddSession(StoreCtx, m, today, wr),
                         "AddSession", m)
    /\ badge' = badge

StoreGetTotalSessions ==
    /\ StoreApply([StoreCtx EXCEPT !.ret = stats.TotalSessions],
                  "GetTotalSessions", 0)
    /\ badge' = badge

StoreGetTodaySessions ==
    /\ StoreApply(GetTodaySessions(StoreCtx, today), "GetTodaySessions", 0)
    /\ badge' = badge

StoreGetBadge ==
    /\ StoreApply(GetBadge(StoreCtx, today), "GetBadge", 0)
    /\ badge' = GetBadge(StoreCtx, today).ret

StoreGetBadgeDescription ==
    /\ StoreApply(GetBadgeDescription(StoreCtx, today), "GetBadgeDescription", 0)
    /\ badge' = GetBadgeDescription(StoreCtx, today).ret

\* Midnight passes.
DayPasses ==
    /\ today < MaxDays
    /\ today' = today + 1
    /\ lastOp' = [op |-> "DayPasses", d |-> 0]
    /\ UNCHANGED <<pomodoro, fx, ret, prev, added, ap, live, reaper, ui,
                   elapsed, halt, phases, stats, statsFile, prevStats, badge,
                   motd, waited>>

NextStats ==
    \/ StoreAddSession
    \/ StoreGetTotalSessions
    \/ StoreGetTodaySessions
    \/ StoreGetBadge
    \/ StoreGetBadgeDescription
    \/ DayPasses

SpecStats == InitEngine /\ [][NextStats]_vars

\* ------------------------------------- the coordinator over other plans
\* Session is an exported field: the engine handed to NewModel may carry a
\* plan other than NewPomodoro's. The space key and ticks only.

Plans ==
    { NewPomodoro.Session,
      [NewPomodoro.Session EXCEPT !.FocusDuration = OtherFocusDuration] }

InitPlan ==
    /\ \E plan \in Plans :
          /\ pomodoro = [NewPomodoro EXCEPT !.Session = plan]
          /\ prev = [NewPomodoro EXCEPT !.Session = plan]
    /\ fx = <<>>
    /\ ret = FALSE
    /\ lastOp = [op |-> "New", d |-> 0]
    /\ added = <<>>
    /\ \E n \in 0..MaxTracks :
          /\ ap = NewAudioPlayer(n)
          /\ ui = [ selectedMP3   |-> 0,
                    availableMP3s |-> [i \in 1..n |-> i],
                    showAudioMenu |-> FALSE,
                    showHelp      |-> FALSE ]
    /\ live = {}
    /\ reaper = [q \in Pids |-> NoReaper]
    /\ elapsed = 0
    /\ halt = "run"
    /\ phases = <<>>
    /\ stats = NewStats(NoFile, 1)
    /\ statsFile = NoFile
    /\ today = 1
    /\ prevStats = NewStats(NoFile, 1)
    /\ badge = ""
    /\ motd = NewMOTD(1)
    /\ waited = NoWait

NextPlan ==
    \/ KeySpace
    \/ TickMsg
    \/ ClockAdvance
    \/ ProcExit
    \/ ReaperWait
    \/ ReaperWake

SpecPlan == InitPlan /\ [][NextPlan]_vars

\* --------------------------------------------------------- the MOTD alone
\* The hours pass; the tick handler and the 'm' key use the MOTD.

MotdApply(m, r, op) ==
    /\ motd' = m
    /\ ret' = r
    /\ lastOp' = [op |-> op, d |-> 0]
    /\ UNCHANGED <<pomodoro, fx, prev, added, ap, live, reaper, ui, elapsed,
                   halt, phases, stats, statsFile, today, prevStats, badge,
                   waited>>

HourPasses ==
    /\ motd.sinceLoaded < MaxMotdAge
    /\ MotdApply([motd EXCEPT !.sinceLoaded = @ + 1], ret, "HourPasses")

MotdNeedsRefresh == MotdApply(motd, NeedsRefresh(motd), "NeedsRefresh")

\* handleKeyPress, case "m"
MotdRefresh ==
    \E i \in 1..MaxMessages : MotdApply(Refresh(motd, i), ret, "Refresh")

\* Update, case TickMsg: the lines before the engine is ticked.
MotdTick ==
    IF NeedsRefresh(motd)
    THEN \E i \in 1..MaxMessages : MotdApply(Refresh(motd, i), ret, "motdTick")
    ELSE MotdApply(motd, ret, "motdTick")

InitMotd ==
    /\ pomodoro = NewPomodoro
    /\ fx = <<>>
    /\ ret = FALSE
    /\ lastOp = [op |-> "New", d |-> 0]
    /\ prev = NewPomodoro
    /\ added = <<>>
    /\ ap = NewAudioPlayer(0)
    /\ ui = [ selectedMP3   |-> 0,
              availableMP3s |-> <<>>,
              showAudioMenu |-> FALSE,
              showHelp      |-> FALSE ]
    /\ live = {}
    /\ reaper = [q \in Pids |-> NoReaper]
    /\ elapsed = 0
    /\ halt = "run"
    /\ phases = <<>>
    /\ stats = NewStats(NoFile, 1)
    /\ statsFile = NoFile
    /\ today = 1
    /\ prevStats = NewStats(NoFile, 1)
    /\ badge = ""
    /\ \E i \in 1..MaxMessages : motd = NewMOTD(i)
    /\ waited = NoWait

NextMotd ==
    \/ HourPasses
    \/ MotdNeedsRefresh
    \/ MotdRefresh
    \/ MotdTick

SpecMotd == InitMotd /\ [][NextMotd]_vars

\* ------------------------------------------------- the tick clock
\* The keys that act on the engine, the tick, and a clock that notes how
\* much of the time since lastTickTime the engine was not Running. The
\* player has no track, so no process is started.

TimePasses ==
    /\ halt = "run"
    /\ \E d \in {ClockStep \div 2, ClockStep} :
          /\ elapsed + d <= MaxElapsed
          /\ elapsed' = elapsed + d
          /\ waited' = IF pomodoro.IsRunning
                       THEN waited
                       ELSE [waited EXCEPT !.cur = @ + d]
    /\ UNCHANGED <<pomodoro, fx, ret, lastOp, prev, added, ap, live, reaper,
                   ui, halt, phases, statsVars, motd>>

NextClock ==
    \/ KeySpace
    \/ KeyResetCycle
    \/ KeyResetSession
    \/ KeySkip
    \/ TickMsg
    \/ TimePasses

SpecClock == InitEngine /\ [][NextClock]_vars

\* --------------------------------------------------------- the menu
\* The keys of the audio menu and of the help panel, 'R', and the rescan
\* message, over lists of up to MaxMenuTracks files.

InitMenu ==
    /\ pomodoro = NewPomodoro
    /\ fx = <<>>
    /\ ret = FALSE
    /\ lastOp = [op |-> "New", d |-> 0]
    /\ prev = NewPomodoro
    /\ added = <<>>
    /\ \E n \in 0..MaxMenuTracks :
          /\ ap = NewAudioPlayerWithEmbed(n, TRUE)
          /\ ui = [ selectedMP3   |-> 0,
                    availableMP3s |-> [i \in 1..n |-> i],
                    showAudioMenu |-> FALSE,
                    showHelp      |-> FALSE ]
    /\ live = {}
    /\ reaper = [q \in Pids |-> NoReaper]
    /\ elapsed = 0
    /\ halt = "run"
    /\ phases = <<>>
    /\ stats = NewStats(NoFile, 1)
    /\ statsFile = NoFile
    /\ today = 1
    /\ prevStats = NewStats(NoFile, 1)
    /\ badge = ""
    /\ motd = NewMOTD(1)
    /\ waited = NoWait

NextMenu ==
    \/ KeyAudioMenu
    \/ KeyUp
    \/ KeyDown
    \/ KeyEnter
    \/ KeyEsc
    \/ KeyHelp
    \/ KeyResetCycle
    \/ RescanMP3s
    \/ ProcExit
    \/ ReaperWait
    \/ ReaperWake

SpecMenu == InitMenu /\ [][NextMenu]_vars

\* ------------------------------------------------------------ claims
Stopped(p) == ~p.IsRunning /\ ~p.IsPaused

ResetState ==
    [ CurrentMode       |-> ModeIdle,
      Session           |-> pomodoro.Session,
      CurrentSession    |-> 0,
      RemainingTime     |-> pomodoro.Session.FocusDuration,
      TotalTime         |-> pomodoro.Session.FocusDuration,
      IsRunning         |-> FALSE,
      IsPaused          |-> FALSE,
      CompletedSessions |-> 0 ]

\* C1: after every engine operation, status Stopped, mode Idle and
\* CurrentSession = 0 are equivalent.
C1_StoppedIffIdleIffZero ==
    /\ Stopped(pomodoro) <=> (pomodoro.CurrentMode = ModeIdle)
    /\ (pomodoro.CurrentMode = ModeIdle) <=> (pomodoro.CurrentSession = 0)

\* C4: in a Running state Tick(d1 + d2) leaves the engine where Tick(d1)
\* followed by Tick(d2) leaves it.
C4_TickAdditive ==
    pomodoro.IsRunning =>
        \A d1, d2 \in 0..MaxDelta :
            Tick(Ctx(pomodoro), d1 + d2).p
                = Tick(Ctx(Tick(Ctx(pomodoro), d1).p), d2).p

\* C2: whenever the audio player reports playing, the engine is in Focus
\* and Running.
C2_PlayingOnlyInFocusRunning ==
    ap.isPlaying =>
        /\ pomodoro.CurrentMode = ModeFocus
        /\ pomodoro.IsRunning
        /\ ~pomodoro.IsPaused

\* The modes of a full cycle of n sessions: n times Focus, Break; Idle.
CyclePhases(n) ==
    [i \in 1..(2 * n + 1) |->
        IF i = 2 * n + 1 THEN ModeIdle
        ELSE IF i % 2 = 1 THEN ModeFocus ELSE ModeBreak]

CycleDone ==
    /\ pomodoro.CurrentMode = ModeIdle
    /\ Stopped(pomodoro)
    /\ phases = CyclePhases(pomodoro.Session.TotalSessions)

\* C3: after Start, fair Ticks with delta > 0 take the engine through N
\* Focus phases, each followed by a Break, and back to Idle/Stopped; only
\* the Tick that ends the Nth Break returns true, and CompletedSessions
\* is N right before it.
C3_FullCycle ==
    /\ <>CycleDone
    /\ [](ret => /\ lastOp.op = "Tick"
                 /\ prev.CurrentMode = ModeBreak
                 /\ prev.CurrentSession = prev.Session.TotalSessions
                 /\ prev.CompletedSessions = prev.Session.TotalSessions
                 /\ CycleDone)
    /\ [](pomodoro.CurrentMode = ModeIdle /\ lastOp.op = "Tick"
             => CycleDone)
    /\ [][ret => ~ret']_vars

C3_Witness ==
    /\ ret
    /\ lastOp.op = "Tick"
    /\ CycleDone
    /\ prev.CompletedSessions = 3

\* C5: Tick(0) changes no engine field, fires no effect and returns false.
C5_TickZeroNoOp ==
    (lastOp.op = "Tick" /\ lastOp.d = 0) =>
        /\ pomodoro = prev
        /\ fx = <<>>
        /\ ret = FALSE

C5_Witness ==
    /\ lastOp.op = "Tick" /\ lastOp.d = 0
    /\ prev.IsRunning
    /\ prev.CurrentMode = ModeBreak
    /\ prev.RemainingTime = 1

\* C6: Stop leaves the reset state, and a second Stop changes nothing.
C6_ResetCycleIdempotent ==
    LET once  == Stop(Ctx(pomodoro))
        twice == Stop(Ctx(once.p))
    IN  /\ once.p = ResetState
        /\ twice.p = once.p
        /\ lastOp.op = "Stop" => pomodoro = ResetState

C6_Witness ==
    /\ lastOp.op = "Stop"
    /\ prev.CurrentMode = ModeBreak
    /\ prev.CompletedSessions = 2
    /\ prev.IsPaused

\* C7: the session reset in a non-Idle state sets RemainingTime to
\* TotalTime and changes no other engine field.
C7_ResetSessionFrame ==
    (lastOp.op = "ResetSession" /\ prev.CurrentMode # ModeIdle) =>
        /\ pomodoro.RemainingTime = prev.TotalTime
        /\ pomodoro = [prev EXCEPT !.RemainingTime = pomodoro.RemainingTime]

C7_Witness ==
    /\ lastOp.op = "ResetSession"
    /\ prev.CurrentMode = ModeBreak
    /\ prev.CompletedSessions = 2
    /\ prev.RemainingTime < prev.TotalTime
    /\ prev.IsPaused

\* C8: after every keystroke and tick 0 <= RemainingTime <= TotalTime.
C8_RemainingWithinTotal ==
    /\ 0 <= pomodoro.RemainingTime
    /\ pomodoro.RemainingTime <= pomodoro.TotalTime

C8_Witness ==
    /\ lastOp.op = "tick"
    /\ lastOp.d > 0
    /\ pomodoro.CurrentMode = ModeFocus
    /\ pomodoro.CurrentSession = 2
    /\ pomodoro.RemainingTime < pomodoro.TotalTime

\* C9: CompletedSessions <= CurrentSession; equal in Break, one less in
\* Focus.
C9_CompletedVsCurrent ==
    /\ pomodoro.CompletedSessions <= pomodoro.CurrentSession
    /\ pomodoro.CurrentMode = ModeBreak =>
           pomodoro.CompletedSessions = pomodoro.CurrentSession
    /\ pomodoro.CurrentMode = ModeFocus =>
           pomodoro.CompletedSessions = pomodoro.CurrentSession - 1

C9_Witness ==
    /\ pomodoro.CurrentMode = ModeFocus
    /\ pomodoro.CurrentSession = 3
    /\ lastOp.op = "NextPhase"

\* C10: Focus implies TotalTime = FocusDuration, Break implies
\* TotalTime = BreakDuration.
C10_TotalTimeOfMode ==
    /\ pomodoro.CurrentMode = ModeFocus => pomodoro.TotalTime = pomodoro.Session.FocusDuration
    /\ pomodoro.CurrentMode = ModeBreak => pomodoro.TotalTime = pomodoro.Session.BreakDuration

C10_Witness ==
    /\ pomodoro.CurrentMode = ModeBreak
    /\ pomodoro.CurrentSession = 2
    /\ lastOp.op = "Tick"

\* The fields the phase-expiry rule works on.
PhaseFields(p) ==
    << p.CurrentMode, p.CurrentSession, p.CompletedSessions,
       p.RemainingTime, p.TotalTime >>

\* The engine after the current phase of p has run out under a Tick.
ExpiryOf(p) ==
    Tick(Ctx([p EXCEPT !.IsRunning = TRUE, !.IsPaused = FALSE]),
         p.RemainingTime).p

\* C11, as first stated: '>' leaves IsRunning and IsPaused as they were.
C11_SkipPreservesStatus ==
    lastOp.op = ">" =>
        /\ pomodoro.IsRunning = prev.IsRunning
        /\ pomodoro.IsPaused = prev.IsPaused

\* C11: '>' acts only when the engine is Running or Paused; it then leaves
\* mode, CurrentSession, CompletedSessions, RemainingTime and TotalTime as
\* the expiry of the phase under a Tick leaves them, and keeps IsRunning
\* and IsPaused unless the skipped phase was the last Break, where the
\* expiry rule resets the cycle to Idle/Stopped. From Focus while Paused
\* it gives Break, Paused, RemainingTime = BreakDuration. When the engine
\* is Idle it changes no field and fires no effect.
C11_SkipAppliesExpiry ==
    lastOp.op = ">" =>
        IF prev.IsRunning \/ prev.IsPaused
        THEN /\ PhaseFields(pomodoro) = PhaseFields(ExpiryOf(prev))
             /\ pomodoro.Session = prev.Session
             /\ pomodoro.CurrentMode # ModeIdle =>
                   /\ pomodoro.IsRunning = prev.IsRunning
                   /\ pomodoro.IsPaused = prev.IsPaused
             /\ pomodoro.CurrentMode = ModeIdle =>
                   /\ prev.CurrentMode = ModeBreak
                   /\ prev.CurrentSession >= prev.Session.TotalSessions
                   /\ Stopped(pomodoro)
             /\ (prev.CurrentMode = ModeFocus /\ prev.IsPaused) =>
                   /\ pomodoro.CurrentMode = ModeBreak
                   /\ pomodoro.IsPaused /\ ~pomodoro.IsRunning
                   /\ pomodoro.RemainingTime = pomodoro.Session.BreakDuration
        ELSE /\ prev.CurrentMode = ModeIdle
             /\ pomodoro = prev
             /\ fx = <<>>

C11_Witness ==
    /\ lastOp.op = ">"
    /\ prev.CurrentMode = ModeFocus
    /\ prev.IsPaused
    /\ prev.RemainingTime < prev.TotalTime
    /\ pomodoro.CurrentMode = ModeBreak
    /\ pomodoro.IsPaused

\* C12: a tick in which a Focus phase expires makes exactly one AddSession
\* call, with the plan's FocusDuration in minutes; any other tick makes
\* none.
C12_AddSessionPerFocusExpiry ==
    lastOp.op = "tick" =>
        added = IF prev.CurrentMode = ModeFocus
                   /\ pomodoro.CurrentMode = ModeBreak
                THEN << prev.Session.FocusDuration >>
                ELSE <<>>

\* C13: AddSession adds one to TotalSessions and the given minutes to
\* TotalFocusMinutes and sets LastSessionDate to the date of the call;
\* TodaySessions becomes 1 when the record's date was another one, and
\* grows by one when it was the same.
C13_AddSessionRollover ==
    lastOp.op = "AddSession" =>
        /\ stats.TotalSessions = prevStats.TotalSessions + 1
        /\ stats.TotalFocusMinutes = prevStats.TotalFocusMinutes + lastOp.d
        /\ stats.LastSessionDate = today
        /\ stats.TodaySessions =
              IF prevStats.LastSessionDate # today
              THEN 1
              ELSE prevStats.TodaySessions + 1

C13_Witness ==
    /\ lastOp.op = "AddSession"
    /\ prevStats.LastSessionDate \notin {0, today}
    /\ prevStats.TodaySessions >= 2
    /\ stats.TodaySessions = 1
    /\ stats.TotalSessions >= 3

\* The tiers of the badge: thresholds and labels, lowest first.
BadgeThresholds == << 0, 1, 3, 5, 8, 10, 15, 20 >>

BadgeLabels ==
    << "Just Starting", "On Fire!", "Rising Star", "Strong Work",
       "Rocketing", "Royalty", "Super Star", "Legend" >>

\* The tier with the largest threshold <= k.
TierOf(k) ==
    CHOOSE i \in 1..Len(BadgeThresholds) :
        /\ BadgeThresholds[i] <= k
        /\ \A j \in 1..Len(BadgeThresholds) :
              BadgeThresholds[j] <= k => j <= i

TierOfLabel(l) == CHOOSE i \in 1..Len(BadgeLabels) : BadgeLabels[i] = l

\* The label the store gives on a day on which k sessions are on record.
LabelAt(k) ==
    LET rec == [stats EXCEPT !.TodaySessions = k, !.LastSessionDate = today]
    IN  GetBadgeDescription([s |-> rec, file |-> <<rec>>, ret |-> 0], today).ret

\* C14: the badge label is the label of the largest threshold <= k, k being
\* today's sessions, and the tier never falls as k grows.
C14_BadgeTiers ==
    lastOp.op = "GetBadgeDescription" =>
        /\ badge = BadgeLabels[TierOf(stats.TodaySessions)]
        /\ \A k \in 0..MaxSessions :
              /\ LabelAt(k) = BadgeLabels[TierOf(k)]
              /\ k >= stats.TodaySessions =>
                    TierOfLabel(LabelAt(k)) >= TierOfLabel(badge)

C14_Witness ==
    /\ lastOp.op = "GetBadgeDescription"
    /\ stats.TodaySessions = 20
    /\ today = 2
    /\ badge = "Legend"

\* C15: isPlaying and isPaused are never both true.
C15_FlagsExclusive == ~(ap.isPlaying /\ ap.isPaused)

\* C16: a reaper that clears isPlaying when it wakes is the reaper of the
\* process that is the current playback.
C16_ReaperClearsOnlyOwn ==
    [][\A q \in Pids :
          ( /\ reaper[q].st = "waiting"
            /\ reaper'[q] = NoReaper
            /\ ap.isPlaying
            /\ ~ap'.isPlaying ) => ap.currentCmd = q]_vars

\* C17: every step in which a reaper goroutine reads or writes a field of
\* the AudioPlayer is its locked section, the one it makes after Wait has
\* returned; it makes none before.
C17_ReaperLocksFirst ==
    [][\A q \in Pids :
          (reaper[q].st # "none" /\ reaper'[q] # reaper[q]) =>
              reaper[q].st = "waiting"]_vars

\* C18: after 'R' the engine is in the reset state, the audio player has
\* no playback and both flags false, and neither the audio menu nor the
\* help panel is open.
C18_ResetCycleClosesAll ==
    lastOp.op = "R" =>
        /\ pomodoro = ResetState
        /\ ap.currentCmd = 0
        /\ live = {}
        /\ ~ap.isPlaying
        /\ ~ap.isPaused
        /\ ~ui.showAudioMenu
        /\ ~ui.showHelp

\* C19: when space is pressed in Idle, the list has a track and the
\* backend launches, the handler returns with the engine started and the
\* remembered track, else the first one, playing.
C19_SpaceStartsAudio ==
    (pomodoro.CurrentMode = ModeIdle /\ Len(ui.availableMP3s) > 0) =>
        LET w == SpaceHandler(World, TRUE)
        IN  w.overflow \/
            /\ w.p.CurrentMode = ModeFocus
            /\ w.p.IsRunning
            /\ w.ap.isPlaying
            /\ w.ap.currentCmd \in w.live
            /\ w.ap.currentMP3 = IF ap.currentMP3 # 0
                                 THEN ap.currentMP3
                                 ELSE ui.availableMP3s[1]

\* C20: when the embedded track was extracted, the list holds it first
\* and then the directory's files in entry order.
C20_EmbeddedTrackFirst ==
    ap.embeddedTempFile # 0 =>
        /\ Len(ap.availableMP3s) >= 1
        /\ ap.availableMP3s[1] = ap.embeddedTempFile
        /\ \A i \in 2..Len(ap.availableMP3s) : ap.availableMP3s[i] = i - 1

C22_ReadsKeepMemory ==
    ( /\ lastOp.op \in {"GetTotalSessions", "GetTodaySessions", "GetBadge",
                        "GetBadgeDescription"}
      /\ prevStats.LastSessionDate = today ) =>
        /\ stats.TotalSessions = prevStats.TotalSessions
        /\ stats.TodaySessions = prevStats.TodaySessions
        /\ stats.TotalFocusMinutes = prevStats.TotalFocusMinutes

\* C23: NeedsRefresh returns true exactly when 24 hours or more have
\* passed since the message was selected, and is false right after a
\* Refresh.
C23_NeedsRefreshFrom24h ==
    /\ lastOp.op = "NeedsRefresh" => (ret <=> motd.sinceLoaded >= RefreshHours)
    /\ lastOp.op = "Refresh" => ~NeedsRefresh(motd)

\* C24: a Tick whose delta exceeds the remaining time of the phase by x
\* carries x over: the next phase starts with its full duration less x,
\* and when x covers the whole next phase, that phase expires in the same
\* Tick as well.
C24_TickCarriesOverflow ==
    ( /\ lastOp.op = "Tick"
      /\ prev.IsRunning
      /\ lastOp.d > prev.RemainingTime
      /\ ExpiryOf(prev).CurrentMode # ModeIdle ) =>
        LET x == lastOp.d - prev.RemainingTime
            nxt == ExpiryOf(prev)
        IN  IF x < nxt.TotalTime
            THEN /\ pomodoro.CurrentMode = nxt.CurrentMode
                 /\ pomodoro.CurrentSession = nxt.CurrentSession
                 /\ pomodoro.RemainingTime = nxt.TotalTime - x
            ELSE << pomodoro.CurrentMode, pomodoro.CurrentSession >>
                     # << nxt.CurrentMode, nxt.CurrentSession >>

\* C25: a reaper goroutine waits on the process started by the PlayMP3
\* call that spawned it: it never calls Wait on a nil handle, and never
\* waits on a process started by a later PlayMP3.
C25_ReaperWaitsOnOwn ==
    \A q \in Pids :
        /\ reaper[q].st # "panic"
        /\ reaper[q].st = "waiting" => reaper[q].on = q

\* C26: while the engine stays in Focus and Running and the process of the
\* playback that was started keeps running, unpaused, a tick issues no
\* PlayMP3: the player keeps the handle it has.
C26_TickDoesNotRestart ==
    [][( /\ pomodoro.CurrentMode = ModeFocus /\ pomodoro.IsRunning
         /\ pomodoro'.CurrentMode = ModeFocus /\ pomodoro'.IsRunning
         /\ ap.currentCmd # 0
         /\ ap.currentCmd \in live
         /\ ~ap.isPaused
         /\ lastOp.op = "tick"
         /\ lastOp'.op = "tick" ) =>
            ap'.currentCmd = ap.currentCmd]_vars

\* The last operation made the phase of prev run out: a skip, or a Tick of
\* a running engine that used up the remaining time.
Expired ==
    \/ lastOp.op = "NextPhase"
    \/ /\ lastOp.op = "Tick"
       /\ prev.IsRunning
       /\ lastOp.d >= prev.RemainingTime

\* C27: the expiry of a Focus phase, by Tick or by skip, adds exactly 1 to
\* CompletedSessions, sets the mode to Break and RemainingTime and
\* TotalTime to BreakDuration, leaves CurrentSession, IsRunning and
\* IsPaused as they were, and fires the stop effect.
C27_FocusExpiry ==
    (Expired /\ prev.CurrentMode = ModeFocus) =>
        /\ pomodoro = [prev EXCEPT
                          !.CompletedSessions = @ + 1,
                          !.CurrentMode = ModeBreak,
                          !.RemainingTime = prev.Session.BreakDuration,
                          !.TotalTime = prev.Session.BreakDuration]
        /\ fx = <<"stop">>
        /\ ~ret

C27_Witness ==
    /\ lastOp.op = "Tick"
    /\ lastOp.d > prev.RemainingTime
    /\ prev.CurrentMode = ModeFocus
    /\ prev.CurrentSession = 2
    /\ pomodoro.CurrentMode = ModeBreak
    /\ pomodoro.CompletedSessions = 2
    /\ pomodoro.IsRunning

\* C28: the expiry of a Break phase, by Tick or by skip: when
\* CurrentSession >= TotalSessions the engine takes the reset state and
\* reports the end of the cycle; otherwise CurrentSession grows by
\* exactly 1, the mode is Focus with RemainingTime and TotalTime at
\* FocusDuration, CompletedSessions is unchanged and no end of cycle is
\* reported.
C28_BreakExpiry ==
    (Expired /\ prev.CurrentMode = ModeBreak) =>
        IF prev.CurrentSession >= prev.Session.TotalSessions
        THEN /\ pomodoro = ResetState
             /\ pomodoro.Session = prev.Session
             /\ ret
        ELSE /\ pomodoro = [prev EXCEPT
                               !.CurrentSession = @ + 1,
                               !.CurrentMode = ModeFocus,
                               !.RemainingTime = prev.Session.FocusDuration,
                               !.TotalTime = prev.Session.FocusDuration]
             /\ ~ret

C28_Witness ==
    /\ lastOp.op = "Tick"
    /\ lastOp.d > prev.RemainingTime
    /\ prev.CurrentMode = ModeBreak
    /\ prev.CurrentSession = 3
    /\ prev.CompletedSessions = 3
    /\ pomodoro = ResetState
    /\ ret

\* C29: Pause changes the engine only when it is Running, and the status
\* is then Paused; when the engine is Stopped or already Paused, Pause
\* changes no field and fires no effect.
C29_PauseOnlyWhenRunning ==
    lastOp.op = "Pause" =>
        IF prev.IsRunning
        THEN pomodoro = [prev EXCEPT !.IsRunning = FALSE, !.IsPaused = TRUE]
        ELSE /\ pomodoro = prev
             /\ fx = <<>>

\* C30: whenever isPlaying is true the player holds the handle of a
\* process it started; a PlayMP3 whose backend cannot be launched while a
\* track is playing does not leave isPlaying true without a playback.
C30_PlayingHasHandle ==
    ap.isPlaying => ap.currentCmd # 0

\* C31: a Tick of an engine that is not Running, Stopped or Paused, changes
\* no engine field, fires no effect and returns false, for every delta.
C31_TickIdleWhenNotRunning ==
    (lastOp.op = "Tick" /\ ~prev.IsRunning) =>
        /\ pomodoro = prev
        /\ fx = <<>>
        /\ ~ret

C31_Witness ==
    /\ lastOp.op = "Tick"
    /\ lastOp.d > prev.RemainingTime
    /\ prev.IsPaused /\ ~prev.IsRunning
    /\ prev.CurrentMode = ModeFocus
    /\ pomodoro.RemainingTime = prev.RemainingTime

\* C32, as first stated: the time subtracted from the phase timers equals
\* the time the engine was Running, so whenever the tick clock restarts
\* while it holds Running time, that time was fed to Tick.
C32_AllRunningTimeFed ==
    [][( /\ pomodoro.IsRunning
         /\ elapsed > 0
         /\ elapsed' = 0 ) =>
            /\ lastOp'.op = "tick"
            /\ lastOp'.d = elapsed]_vars

\* C32: the delta the tick handler feeds to Tick holds no time in which
\* the engine was not Running: while the engine is Running, none of the
\* time since lastTickTime was spent Stopped or Paused, whatever keys and
\* ticks came before.
C32_DeltaIsRunningTime ==
    pomodoro.IsRunning => waited.cur = 0

C32_Witness ==
    /\ lastOp.op = "tick"
    /\ lastOp.d > 0
    /\ prev.IsRunning
    /\ waited.dropped > 0
    /\ pomodoro.RemainingTime = prev.RemainingTime - lastOp.d

\* C33: a Resume of the audio player that finds isPaused true and a track
\* selected restarts the track and leaves isPlaying true and isPaused
\* false. The space key calls it when it resumes the engine.
C33_ResumeClearsPaused ==
    [][( /\ lastOp'.op = "space"
         /\ pomodoro.IsPaused /\ pomodoro'.IsRunning
         /\ ap.isPaused
         /\ ap.currentMP3 # 0
         /\ ap'.currentCmd # 0 ) =>
            /\ ap'.isPlaying
            /\ ~ap'.isPaused]_vars

\* C34: after the tick that completes the cycle the engine is Idle and
\* the audio player has no playback handle, no process and both flags
\* false: the handler stopped it, and reconciliation started no track.
C34_CycleEndStopsAudio ==
    (lastOp.op = "tick" /\ ret) =>
        /\ pomodoro.CurrentMode = ModeIdle
        /\ Stopped(pomodoro)
        /\ ap.currentCmd = 0
        /\ live = {}
        /\ ~ap.isPlaying
        /\ ~ap.isPaused

C34_Witness ==
    /\ lastOp.op = "tick"
    /\ ret
    /\ prev.CurrentMode = ModeBreak
    /\ prev.CurrentSession = 3
    /\ pomodoro.CurrentMode = ModeIdle
    /\ ap.currentMP3 # 0
    /\ ap.currentCmd = 0

\* C35: currentMP3 is kept by Pause, by Stop and by the reapers; it
\* changes only in a step whose PlayMP3 started a process, and becomes the
\* track passed to that call: the first of the list when a tick or a skip
\* reconciles while none was selected, the one under the cursor on 'enter'.
C35_SelectionRetained ==
    [][ap'.currentMP3 # ap.currentMP3 =>
          /\ ap'.currentCmd \in live'
          /\ reaper'[ap'.currentCmd].st = "spawned"
          /\ ap'.isPlaying
          /\ \/ /\ lastOp'.op \in {"tick", ">"}
                /\ ap.currentMP3 = 0
                /\ ap'.currentMP3 = ui.availableMP3s[1]
             \/ /\ lastOp'.op = "enter"
                /\ ap'.currentMP3 = ui.availableMP3s[ui.selectedMP3 + 1]]_vars

C35_Witness ==
    /\ lastOp.op = "R"
    /\ prev.CurrentMode = ModeFocus
    /\ ap.currentMP3 # 0
    /\ ap.currentCmd = 0
    /\ ~ap.isPlaying
    /\ ~ap.isPaused

\* C36: after any sequence of keys, ticks and rescans the cursor of the
\* menu is inside the list whenever the list is not empty, and 'enter'
\* never indexes outside the list.
C36_CursorInRange ==
    /\ Len(ui.availableMP3s) > 0 =>
           ui.selectedMP3 \in 0..(Len(ui.availableMP3s) - 1)
    /\ ~(lastOp.op = "enter" /\ halt = "panic")

\* C37: AddSession is called only in the handling of a tick in which the
\* mode goes from Focus to Break, once; a Focus phase ended by '>' adds 1
\* to CompletedSessions and records no session, and no other key does.
C37_SkipRecordsNoSession ==
    /\ added # <<>> =>
           /\ lastOp.op = "tick"
           /\ prev.CurrentMode = ModeFocus
           /\ pomodoro.CurrentMode = ModeBreak
           /\ Len(added) = 1
    /\ ( /\ lastOp.op = ">"
         /\ prev.CurrentMode = ModeFocus
         /\ prev.IsRunning \/ prev.IsPaused ) =>
           /\ pomodoro.CurrentMode = ModeBreak
           /\ pomodoro.CompletedSessions = prev.CompletedSessions + 1
           /\ added = <<>>

C37_Witness ==
    /\ lastOp.op = ">"
    /\ prev.CurrentMode = ModeFocus
    /\ prev.IsRunning
    /\ prev.CurrentSession = 2
    /\ pomodoro.CurrentMode = ModeBreak
    /\ pomodoro.CompletedSessions = 2
    /\ added = <<>>

\* C38: the help panel and the audio menu are never both open.
C38_OneSubmenu == ~(ui.showHelp /\ ui.showAudioMenu)

\* C39: each entry into Focus fires the start effect exactly once: Start
\* from Idle, and the expiry of a Break, by Tick or by skip, that leads to
\* the next Focus.
C39_OneStartEffect ==
    /\ (lastOp.op = "Start" /\ prev.CurrentMode = ModeIdle) =>
           /\ pomodoro.CurrentMode = ModeFocus
           /\ fx = <<"start">>
    /\ ( /\ Expired
         /\ prev.CurrentMode = ModeBreak
         /\ pomodoro.CurrentMode = ModeFocus ) =>
           fx = <<"start">>

====
